---- MODULE Spec2Model ----
(***************************************************************************)
(* Model of the in-memory limit order book of orderbook/orderbook.go.      *)
(*                                                                         *)
(* Pointers are modelled by identifiers: an order is its ID (IDs are       *)
(* unique, one per submitted order, numbered in submission order), a       *)
(* *PriceLevel is an index into the level store `levels`.  The two heaps   *)
(* are the arrays container/heap keeps, holding level pointers; the two    *)
(* lookup tables map a price to a level pointer (NoLevel when the key is   *)
(* absent).  Prices and quantities are small positive integers: every      *)
(* arithmetic step of the code (subtraction, min, comparison) is exact on  *)
(* them.  A run-time panic (container/heap.Pop on an empty heap) unwinds   *)
(* the call; the book is then left as the panic found it and the model     *)
(* stops (`panicked`).                                                     *)
(***************************************************************************)
EXTENDS Integers, Sequences, FiniteSets, TLC

\* ---------------------------------------------------------------- bounds
MaxOrders == 2      \* PlaceOrder calls of a behaviour of Spec
MaxPrice == 2       \* limit prices are 1..MaxPrice
MaxQty == 2         \* quantities are 1..MaxQty
LevelOrders == 4    \* PlaceOrder calls of a behaviour of LevelSpec
QueryOrders == 3    \* PlaceOrder calls of a behaviour of QuerySpec
QueryDepth == 2     \* GetDepth is called with levels in 0..QueryDepth
MaxThreads == 2     \* threads of ConcSpec
ConcOrders == 2     \* PlaceOrder calls of a behaviour of ConcSpec
DeepOrders == 7     \* PlaceOrder calls of a behaviour of DeepSpec
DeepPrice == 3      \* limit prices of DeepSpec are 1..DeepPrice

\* ------------------------------------------------------------- constants
Bid == "Bid"
Ask == "Ask"
Limit == "Limit"
Market == "Market"
Pending == "Pending"
Filled == "Filled"
Partial == "Partial"
Cancelled == "Cancelled"
NoLevel == 0

OrderIds == 1..MaxOrders
LevelIds == 1..(IF DeepOrders > MaxOrders THEN DeepOrders ELSE MaxOrders)
Threads == 1..MaxThreads
Prices == 1..MaxPrice
\* the keys the lookup tables are modelled over
AllPrices == 1..(IF DeepPrice > MaxPrice THEN DeepPrice ELSE MaxPrice)
Quantities == 1..MaxQty

VARIABLES
    orders,          \* every Order object handed to PlaceOrder so far, by ID
    levels,          \* the PriceLevel objects, by pointer
    Bids,            \* *BidHeap: array of level pointers
    Asks,            \* *AskHeap: array of level pointers
    BidLevels,       \* map[float64]*PriceLevel of the bid side
    AskLevels,       \* map[float64]*PriceLevel of the ask side
    UnFilledOrders,  \* keys of map[string]*Order
    Trades,          \* ob.Trades, the trade log
    matchLog,        \* history: for each entry of Trades, the facts of its match
    lastOp,          \* history: the last call and what it returned
    cancelled,       \* history: the orders CancelOrder has marked Cancelled
    panicked,        \* a call ended in a run-time panic
    pc,              \* per thread: the statement its call is at
    arg,             \* per thread: the arguments of its call
    ret,             \* per thread: the values its call returns
    mutex,           \* ob.mutex: the writer and the readers holding it
    snap             \* history: per thread, the book when it took the lock

\* the threads and the lock, used by ConcSpec only
conc == <<pc, arg, ret, mutex, snap>>

vars == <<orders, levels, Bids, Asks, BidLevels, AskLevels, UnFilledOrders,
          Trades, matchLog, lastOp, cancelled, panicked, conc>>

\* ------------------------------------------------------------ Order
Remaining(o) == o.Quantity - o.FilledQuantity

IsFilled(o) == o.FilledQuantity >= o.Quantity

NewOrder(side, type, price, qty) ==
    [Side |-> side, Type |-> type, Status |-> Pending, Price |-> price,
     Quantity |-> qty, FilledQuantity |-> 0]

\* ------------------------------------------------------------ PriceLevel
EmptyLevel == [Price |-> 0, Orders |-> <<>>, Quantity |-> 0]

isEmpty(pl) == Len(pl.Orders) = 0 \/ pl.Quantity <= 0

RECURSIVE SumRemaining(_, _)
SumRemaining(ords, s) ==
    IF s = <<>> THEN 0
    ELSE Remaining(ords[Head(s)]) + SumRemaining(ords, Tail(s))

\* AddOrder leaving the cached quantity as it was
AddOrderNoQuantity(b, l, id) ==
    [b EXCEPT !.levels[l] = [@ EXCEPT !.Orders = Append(@, id)]]

\* pl.AddOrder(order) on level l of book b
AddOrder(b, l, id) ==
    [b EXCEPT !.levels[l] =
        [@ EXCEPT !.Orders = Append(@, id),
                  !.Quantity = @ + Remaining(b.orders[id])]]

\* pl.RemoveFilledOrders() on level l of book b
RemoveFilledOrders(b, l) ==
    LET newOrders == SelectSeq(b.levels[l].Orders,
                               LAMBDA id : ~IsFilled(b.orders[id]))
    IN [b EXCEPT !.levels[l] =
          [@ EXCEPT !.Orders = newOrders,
                    !.Quantity = SumRemaining(b.orders, newOrders)]]

\* ------------------------------------------------------------ heaps
\* Indices are the 0-based indices of the Go slices.
At(h, i) == h[i + 1]

Swap(h, i, j) == [h EXCEPT ![i + 1] = h[j + 1], ![j + 1] = h[i + 1]]

\* BidHeap.Less / AskHeap.Less
Less(side, lv, h, i, j) ==
    IF side = Bid THEN lv[At(h, i)].Price > lv[At(h, j)].Price
    ELSE lv[At(h, i)].Price < lv[At(h, j)].Price

\* container/heap.up
RECURSIVE up(_, _, _, _)
up(side, lv, h, j) ==
    LET i == IF j = 0 THEN 0 ELSE (j - 1) \div 2
    IN IF i = j \/ ~Less(side, lv, h, j, i) THEN h
       ELSE up(side, lv, Swap(h, i, j), i)

\* container/heap.down
RECURSIVE down(_, _, _, _, _)
down(side, lv, h, i, n) ==
    LET j1 == 2 * i + 1
        j2 == j1 + 1
        j == IF j2 < n /\ Less(side, lv, h, j2, j1) THEN j2 ELSE j1
    IN IF j1 >= n THEN h
       ELSE IF ~Less(side, lv, h, j, i) THEN h
       ELSE down(side, lv, Swap(h, i, j), j, n)

\* heap.Push(h, x): h.Push(x) then up(h, h.Len()-1)
HeapPush(side, lv, h, l) == up(side, lv, Append(h, l), Len(h))

\* heap.Pop(h) on a non-empty heap: Swap(0, n), down(h, 0, n), h.Pop()
HeapPop(side, lv, h) ==
    LET n == Len(h) - 1
        h1 == down(side, lv, Swap(h, 0, n), 0, n)
    IN SubSeq(h1, 1, n)

\* h.Peek()
Peek(h) == IF Len(h) = 0 THEN NoLevel ELSE At(h, 0)

\* ------------------------------------------------------------ OrderBook
\* A book value `b` carries the OrderBook fields, the Order objects, the
\* level store, the trade list the running call will return (`trades`) and
\* the panic flag.

Range(f) == {f[x] : x \in DOMAIN f}

\* NewOrderBook
NewOrderBook ==
    [orders |-> <<>>,
     levels |-> [l \in LevelIds |-> EmptyLevel],
     Bids |-> <<>>, Asks |-> <<>>,
     BidLevels |-> [p \in AllPrices |-> NoLevel],
     AskLevels |-> [p \in AllPrices |-> NoLevel],
     UnFilledOrders |-> {},
     Trades |-> <<>>, matchLog |-> <<>>, trades |-> <<>>,
     panicked |-> FALSE]

\* the level pointers the book still holds
Referenced(b) ==
    (Range(b.Bids) \cup Range(b.Asks) \cup Range(b.BidLevels)
        \cup Range(b.AskLevels)) \ {NoLevel}

\* &PriceLevel{...}: a fresh object, distinct from every level still held
NewLevelId(b) == CHOOSE l \in LevelIds \ Referenced(b) :
                     \A k \in LevelIds \ Referenced(b) : l <= k

\* heap.Pop(ob.Bids) / heap.Pop(ob.Asks); panics (index out of range in
\* Swap(0, -1)) when the heap is empty
PopHeap(b, isBid) ==
    IF isBid
    THEN IF Len(b.Bids) = 0 THEN [b EXCEPT !.panicked = TRUE]
         ELSE [b EXCEPT !.Bids = HeapPop(Bid, b.levels, @)]
    ELSE IF Len(b.Asks) = 0 THEN [b EXCEPT !.panicked = TRUE]
         ELSE [b EXCEPT !.Asks = HeapPop(Ask, b.levels, @)]

\* delete(ob.BidLevels, price) / delete(ob.AskLevels, price)
DeleteLevel(b, isBid, price) ==
    IF isBid THEN [b EXCEPT !.BidLevels[price] = NoLevel]
    ELSE [b EXCEPT !.AskLevels[price] = NoLevel]

\* cleanupPriceLevel(level, isBid)
cleanupPriceLevel(b, l, isBid) ==
    LET b1 == RemoveFilledOrders(b, l)
        b2 == PopHeap(b1, isBid)
    IN IF ~isEmpty(b1.levels[l]) THEN b1
       ELSE IF b2.panicked THEN b2
       ELSE DeleteLevel(b2, isBid, b1.levels[l].Price)

\* the status matchOrders gives an order after the fill
StatusAfter(o) == IF IsFilled(o) THEN Filled ELSE Partial

\* min(a, b)
min(a, b) == IF a < b THEN a ELSE b

\* the body of matchOrders once quantity is computed: both fills, both
\* status updates, and the Trade minted at `price`
fillOrders(b, buyOrder, sellOrder, price, quantity) ==
    LET o1 == [b.orders EXCEPT ![buyOrder].FilledQuantity = @ + quantity,
                               ![sellOrder].FilledQuantity = @ + quantity]
        o2 == [o1 EXCEPT ![buyOrder].Status = StatusAfter(o1[buyOrder]),
                         ![sellOrder].Status = StatusAfter(o1[sellOrder])]
        gone == {x \in {buyOrder, sellOrder} : IsFilled(o1[x])}
    IN [book |-> [b EXCEPT !.orders = o2,
                           !.UnFilledOrders = @ \ gone],
        trade |-> [BuyOrderId |-> buyOrder, SellOrderId |-> sellOrder,
                   Price |-> price, Quantity |-> quantity]]

\* matchOrders minting the trade at the buy order's own price
matchOrdersBuyPrice(b, buyOrder, sellOrder, price) ==
    fillOrders(b, buyOrder, sellOrder, b.orders[buyOrder].Price,
               min(Remaining(b.orders[buyOrder]), Remaining(b.orders[sellOrder])))

\* matchOrders filling the buy order's whole remainder
matchOrdersNoMin(b, buyOrder, sellOrder, price) ==
    fillOrders(b, buyOrder, sellOrder, price, Remaining(b.orders[buyOrder]))

\* matchOrders(buyOrder, sellOrder, price): the book after the fill and
\* the Trade it returns
matchOrders(b, buyOrder, sellOrder, price) ==
    fillOrders(b, buyOrder, sellOrder, price,
               min(Remaining(b.orders[buyOrder]), Remaining(b.orders[sellOrder])))

\* history only: what held just before the incoming order `taker` was
\* matched with the level's head order `maker`
RestingOn(b, side) == {x \in b.UnFilledOrders : b.orders[x].Side = side}

BestRestingPrice(b, side) ==
    IF RestingOn(b, side) = {} THEN 0
    ELSE LET ps == {b.orders[x].Price : x \in RestingOn(b, side)}
         IN IF side = Bid THEN CHOOSE p \in ps : \A q \in ps : q <= p
            ELSE CHOOSE p \in ps : \A q \in ps : p <= q

MatchFacts(b, taker, maker) ==
    [taker |-> taker, maker |-> maker,
     takerRem |-> Remaining(b.orders[taker]),
     makerRem |-> Remaining(b.orders[maker]),
     makerResting |-> maker \in b.UnFilledOrders,
     bestResting |-> BestRestingPrice(b, b.orders[maker].Side),
     earlier |-> {e \in b.UnFilledOrders :
                     /\ e < maker
                     /\ b.orders[e].Side = b.orders[maker].Side
                     /\ b.orders[e].Price = b.orders[maker].Price}]

\* trade := ob.matchOrders(...); trades = append(trades, trade);
\* ob.Trades = append(ob.Trades, trade)
Match(b, taker, maker, buyOrder, sellOrder, price) ==
    LET m == matchOrders(b, buyOrder, sellOrder, price)
    IN [m.book EXCEPT !.trades = Append(@, m.trade),
                      !.Trades = Append(@, m.trade),
                      !.matchLog = Append(@, MatchFacts(b, taker, maker))]

\* ob.AddBidToOrderBook(o)
AddBidToOrderBook(b, o) ==
    LET b1 == [b EXCEPT !.UnFilledOrders = @ \cup {o}]
        price == b.orders[o].Price
        l == NewLevelId(b)
    IN IF b1.BidLevels[price] # NoLevel
       THEN AddOrder(b1, b1.BidLevels[price], o)
       ELSE LET lv == [b1.levels EXCEPT ![l] =
                         [Price |-> price, Orders |-> <<o>>,
                          Quantity |-> Remaining(b.orders[o])]]
            IN [b1 EXCEPT !.levels = lv,
                          !.BidLevels[price] = l,
                          !.Bids = HeapPush(Bid, lv, @, l)]

\* ob.AddAskToOrderBook(o)
AddAskToOrderBook(b, o) ==
    LET b1 == [b EXCEPT !.UnFilledOrders = @ \cup {o}]
        price == b.orders[o].Price
        l == NewLevelId(b)
    IN IF b1.AskLevels[price] # NoLevel
       THEN AddOrder(b1, b1.AskLevels[price], o)
       ELSE LET lv == [b1.levels EXCEPT ![l] =
                         [Price |-> price, Orders |-> <<o>>,
                          Quantity |-> Remaining(b.orders[o])]]
            IN [b1 EXCEPT !.levels = lv,
                          !.AskLevels[price] = l,
                          !.Asks = HeapPush(Ask, lv, @, l)]

\* a Limit Bid matched whatever the best ask's price
BidCrossesAlways(o, pl) == TRUE

\* the crossing tests of processLimitOrder
BidCrosses(o, pl) == o.Price >= pl.Price

AskCrosses(o, pl) == o.Price <= pl.Price

\* the stale branch of the matching loops:
\* heap.Pop(ob.Asks); delete(ob.AskLevels, bestAsk.Price)  (same for bids)
DiscardStale(b, l, isBid) ==
    DeleteLevel(PopHeap(b, isBid), isBid, b.levels[l].Price)

\* processLimitOrder, o.Side == Bid: the matching loop
RECURSIVE limitBidLoop(_, _)
limitBidLoop(b, o) ==
    IF b.panicked \/ ~(Remaining(b.orders[o]) > 0 /\ Len(b.Asks) > 0) THEN b
    ELSE LET bestAsk == Peek(b.Asks)
         IN IF isEmpty(b.levels[bestAsk])
            THEN limitBidLoop(DiscardStale(b, bestAsk, FALSE), o)
            ELSE IF BidCrosses(b.orders[o], b.levels[bestAsk])
            THEN limitBidLoop(
                   cleanupPriceLevel(
                     Match(b, o, Head(b.levels[bestAsk].Orders),
                           o, Head(b.levels[bestAsk].Orders),
                           b.levels[bestAsk].Price),
                     bestAsk, FALSE), o)
            ELSE b

\* processLimitOrder, o.Side == Ask: the matching loop
RECURSIVE limitAskLoop(_, _)
limitAskLoop(b, o) ==
    IF b.panicked \/ ~(Remaining(b.orders[o]) > 0 /\ Len(b.Bids) > 0) THEN b
    ELSE LET bestBid == Peek(b.Bids)
         IN IF isEmpty(b.levels[bestBid])
            THEN limitAskLoop(DiscardStale(b, bestBid, TRUE), o)
            ELSE IF AskCrosses(b.orders[o], b.levels[bestBid])
            THEN limitAskLoop(
                   cleanupPriceLevel(
                     Match(b, o, Head(b.levels[bestBid].Orders),
                           Head(b.levels[bestBid].Orders), o,
                           b.levels[bestBid].Price),
                     bestBid, TRUE), o)
            ELSE b

\* processLimitOrder(o)
processLimitOrder(b, o) ==
    IF b.orders[o].Side = Bid
    THEN LET b1 == limitBidLoop(b, o)
         IN IF ~b1.panicked /\ Remaining(b1.orders[o]) > 0
            THEN AddBidToOrderBook(b1, o) ELSE b1
    ELSE LET b1 == limitAskLoop(b, o)
         IN IF ~b1.panicked /\ Remaining(b1.orders[o]) > 0
            THEN AddAskToOrderBook(b1, o) ELSE b1

\* processMarketOrder, o.Side == Bid: the matching loop
RECURSIVE marketBidLoop(_, _)
marketBidLoop(b, o) ==
    IF b.panicked \/ ~(Remaining(b.orders[o]) > 0 /\ Len(b.Asks) > 0) THEN b
    ELSE LET bestAsk == Peek(b.Asks)
         IN IF isEmpty(b.levels[bestAsk])
            THEN marketBidLoop(DiscardStale(b, bestAsk, FALSE), o)
            ELSE marketBidLoop(
                   cleanupPriceLevel(
                     Match(b, o, Head(b.levels[bestAsk].Orders),
                           o, Head(b.levels[bestAsk].Orders),
                           b.levels[bestAsk].Price),
                     bestAsk, FALSE), o)

\* processMarketOrder, o.Side == Ask: the matching loop.  The code passes
\* the incoming Ask as matchOrders' buyOrder and cleans the bid level up
\* with isBid = false.
RECURSIVE marketAskLoop(_, _)
marketAskLoop(b, o) ==
    IF b.panicked \/ ~(Remaining(b.orders[o]) > 0 /\ Len(b.Bids) > 0) THEN b
    ELSE LET bestBid == Peek(b.Bids)
         IN IF isEmpty(b.levels[bestBid])
            THEN marketAskLoop(DiscardStale(b, bestBid, TRUE), o)
            ELSE marketAskLoop(
                   cleanupPriceLevel(
                     Match(b, o, Head(b.levels[bestBid].Orders),
                           o, Head(b.levels[bestBid].Orders),
                           b.levels[bestBid].Price),
                     bestBid, FALSE), o)

\* processMarketOrder(o)
processMarketOrder(b, o) ==
    LET b1 == IF b.orders[o].Side = Bid THEN marketBidLoop(b, o)
              ELSE marketAskLoop(b, o)
    IN IF ~b1.panicked /\ Remaining(b1.orders[o]) > 0
       THEN [b1 EXCEPT !.orders[o].Status = Cancelled]
       ELSE b1

\* the body of PlaceOrder(o) for the order object `order`, whose ID is the
\* next unused one
PlaceOrderBody(b, order) ==
    LET o == Len(b.orders) + 1
        b0 == [b EXCEPT !.orders = Append(@, [order EXCEPT !.Status = Pending]),
                        !.trades = <<>>]
    IN IF order.Type = Limit THEN processLimitOrder(b0, o)
       ELSE processMarketOrder(b0, o)

\* the body of CancelOrder(orderID): the book after the call and the
\* boolean it returns
CancelOrderBody(b, orderID) ==
    IF orderID \notin b.UnFilledOrders
    THEN [book |-> b, ok |-> FALSE]
    ELSE LET b1 == [b EXCEPT !.orders[orderID].Status = Cancelled,
                             !.UnFilledOrders = @ \ {orderID}]
             isBid == b.orders[orderID].Side = Bid
             level == IF isBid THEN b.BidLevels[b.orders[orderID].Price]
                      ELSE b.AskLevels[b.orders[orderID].Price]
             newOrders == SelectSeq(b1.levels[level].Orders,
                                    LAMBDA x : x # orderID)
             b2 == [b1 EXCEPT !.levels[level] =
                      [@ EXCEPT !.Orders = newOrders,
                                !.Quantity = SumRemaining(b1.orders, newOrders)]]
         IN IF level = NoLevel THEN [book |-> b1, ok |-> TRUE]
            ELSE [book |-> cleanupPriceLevel(b2, level, isBid), ok |-> TRUE]

\* ------------------------------------------------------------ state machine
\* the book held in the variables
Book ==
    [orders |-> orders, levels |-> levels, Bids |-> Bids, Asks |-> Asks,
     BidLevels |-> BidLevels, AskLevels |-> AskLevels,
     UnFilledOrders |-> UnFilledOrders, Trades |-> Trades,
     matchLog |-> matchLog, trades |-> <<>>, panicked |-> panicked]

\* a level object no heap or table points to any more is garbage
Collected(b) ==
    [l \in LevelIds |-> IF l \in Referenced(b) THEN b.levels[l] ELSE EmptyLevel]

Store(b) ==
    /\ orders' = b.orders
    /\ levels' = Collected(b)
    /\ Bids' = b.Bids
    /\ Asks' = b.Asks
    /\ BidLevels' = b.BidLevels
    /\ AskLevels' = b.AskLevels
    /\ UnFilledOrders' = b.UnFilledOrders
    /\ Trades' = b.Trades
    /\ matchLog' = b.matchLog
    /\ panicked' = b.panicked

NoOp == [op |-> "none", id |-> 0, trades |-> <<>>, ok |-> FALSE]

\* a thread that is in no call: no arguments, nothing returned
NoCall ==
    [op |-> "none", order |-> NewOrder(Bid, Limit, 0, 0), Timestamp |-> FALSE,
     orderID |-> 0, levels |-> 0]

NoReturn ==
    [id |-> 0, trades |-> <<>>, ok |-> FALSE, bestBid |-> 0, bestAsk |-> 0,
     bids |-> <<>>, asks |-> <<>>]

Init ==
    /\ orders = NewOrderBook.orders
    /\ levels = NewOrderBook.levels
    /\ Bids = NewOrderBook.Bids
    /\ Asks = NewOrderBook.Asks
    /\ BidLevels = NewOrderBook.BidLevels
    /\ AskLevels = NewOrderBook.AskLevels
    /\ UnFilledOrders = NewOrderBook.UnFilledOrders
    /\ Trades = NewOrderBook.Trades
    /\ matchLog = <<>>
    /\ lastOp = NoOp
    /\ cancelled = {}
    /\ panicked = FALSE
    /\ pc = [t \in Threads |-> "idle"]
    /\ arg = [t \in Threads |-> NoCall]
    /\ ret = [t \in Threads |-> NoReturn]
    /\ mutex = [writer |-> 0, readers |-> {}]
    /\ snap = [t \in Threads |-> NewOrderBook]

\* the validated orders a caller may submit
ValidOrders ==
    {NewOrder(side, Limit, price, qty) :
        side \in {Bid, Ask}, price \in Prices, qty \in Quantities}
    \cup {NewOrder(side, Market, 0, qty) :
        side \in {Bid, Ask}, qty \in Quantities}

\* one PlaceOrder call, of at most `max` calls in all
Place(order, max) ==
    /\ ~panicked
    /\ Len(orders) < max
    /\ LET b == PlaceOrderBody(Book, order)
       IN /\ Store(b)
          /\ lastOp' = [op |-> "PlaceOrder", id |-> Len(orders) + 1,
                        trades |-> IF b.panicked THEN <<>> ELSE b.trades,
                        ok |-> FALSE]
          /\ UNCHANGED <<cancelled, conc>>

PlaceOrder(order) == Place(order, MaxOrders)

CancelOrder(orderID) ==
    /\ ~panicked
    /\ LET r == CancelOrderBody(Book, orderID)
       IN /\ Store(r.book)
          /\ lastOp' = [op |-> "CancelOrder", id |-> orderID,
                        trades |-> <<>>, ok |-> r.ok]
          /\ cancelled' = IF r.ok THEN cancelled \cup {orderID} ELSE cancelled
          /\ UNCHANGED conc

Next ==
    \/ \E order \in ValidOrders : PlaceOrder(order)
    \/ \E orderID \in OrderIds : CancelOrder(orderID)

Spec == Init /\ [][Next]_vars

\* Longer behaviours.  They open with three calls: Limit Bids of quantity 1
\* at prices 1 and DeepPrice, then the cancellation of the first, which is
\* not at the best price.  From there on: unit-quantity Limit Bids below
\* DeepPrice, Limit Asks at the lowest and at the highest price, Market Asks,
\* and cancellation of resting orders.
Opened ==
    \/ Len(orders) > 2
    \/ Len(orders) = 2 /\ lastOp.op = "CancelOrder"

DeepOpening ==
    \/ Len(orders) = 0 /\ Place(NewOrder(Bid, Limit, 1, 1), DeepOrders)
    \/ Len(orders) = 1 /\ Place(NewOrder(Bid, Limit, DeepPrice, 1), DeepOrders)
    \/ Len(orders) = 2 /\ ~Opened /\ CancelOrder(1)

DeepValidOrders ==
    {NewOrder(Bid, Limit, price, 1) : price \in 1..(DeepPrice - 1)}
    \cup {NewOrder(Ask, Limit, price, 1) : price \in {1, DeepPrice}}
    \cup {NewOrder(Ask, Market, 0, 1)}

DeepPlaceOrder(order) ==
    /\ Opened
    /\ Place(order, DeepOrders)

DeepCancelOrder(orderID) ==
    /\ Opened
    /\ orderID \in UnFilledOrders
    /\ CancelOrder(orderID)

DeepNext ==
    \/ DeepOpening
    \/ \E order \in DeepValidOrders : DeepPlaceOrder(order)
    \/ \E orderID \in 1..DeepOrders : DeepCancelOrder(orderID)

DeepSpec == Init /\ [][DeepNext]_vars

\* ------------------------------------------------------------ queries
\* GetBestBidAsk(): the three values it returns.  bestBid and bestAsk are
\* Go's named results, 0 until assigned.
GetBestBidAskBody(b) ==
    [bestBid |-> IF Len(b.Bids) > 0 THEN b.levels[Peek(b.Bids)].Price ELSE 0,
     bestAsk |-> IF Len(b.Asks) > 0 THEN b.levels[Peek(b.Asks)].Price ELSE 0,
     ok |-> Len(b.Bids) > 0 \/ Len(b.Asks) > 0]

\* one loop of GetDepth over the heap array h, from index i with count
\* levels already taken
RECURSIVE depthLoop(_, _, _, _, _, _)
depthLoop(lv, h, i, count, n, acc) ==
    IF ~(i < Len(h) /\ count < n) THEN acc
    ELSE IF ~isEmpty(lv[At(h, i)])
    THEN depthLoop(lv, h, i + 1, count + 1, n, Append(acc, lv[At(h, i)]))
    ELSE depthLoop(lv, h, i + 1, count, n, acc)

\* GetDepth(levels): the two slices of PriceLevel copies it returns
GetDepthBody(b, n) ==
    [bids |-> depthLoop(b.levels, b.Bids, 0, 0, n, <<>>),
     asks |-> depthLoop(b.levels, b.Asks, 0, 0, n, <<>>)]

\* the two queries as calls on the book; neither writes to it
GetBestBidAsk ==
    /\ ~panicked
    /\ lastOp' = [op |-> "GetBestBidAsk", id |-> 0, trades |-> <<>>,
                  ok |-> GetBestBidAskBody(Book).ok,
                  bestBid |-> GetBestBidAskBody(Book).bestBid,
                  bestAsk |-> GetBestBidAskBody(Book).bestAsk]
    /\ UNCHANGED <<orders, levels, Bids, Asks, BidLevels, AskLevels,
                   UnFilledOrders, Trades, matchLog, cancelled, panicked, conc>>

GetDepth(n) ==
    /\ ~panicked
    /\ lastOp' = [op |-> "GetDepth", id |-> 0, trades |-> <<>>, ok |-> FALSE,
                  levels |-> n,
                  bids |-> GetDepthBody(Book, n).bids,
                  asks |-> GetDepthBody(Book, n).asks]
    /\ UNCHANGED <<orders, levels, Bids, Asks, BidLevels, AskLevels,
                   UnFilledOrders, Trades, matchLog, cancelled, panicked, conc>>

\* Behaviours with queries: unit-quantity Limit orders at prices
\* 1..DeepPrice and Market orders, cancellations, and the two queries.
QueryValidOrders ==
    {NewOrder(side, Limit, price, 1) : side \in {Bid, Ask}, price \in 1..DeepPrice}
    \cup {NewOrder(side, Market, 0, 1) : side \in {Bid, Ask}}

QueryNext ==
    \/ \E order \in QueryValidOrders : Place(order, QueryOrders)
    \/ \E orderID \in 1..QueryOrders : CancelOrder(orderID)
    \/ GetBestBidAsk
    \/ \E n \in 0..QueryDepth : GetDepth(n)

QuerySpec == Init /\ [][QueryNext]_vars

\* Behaviours that fill and cancel inside one level: Limit Bids at the
\* highest price of quantity 1 or MaxQty and unit Limit Bids at the lowest
\* price, unit Limit Asks at the lowest price, unit Market Asks, and
\* cancellation of resting orders.
LevelValidOrders ==
    {NewOrder(Bid, Limit, MaxPrice, qty) : qty \in {1, MaxQty}}
    \cup {NewOrder(Bid, Limit, 1, 1), NewOrder(Ask, Limit, 1, 1),
          NewOrder(Ask, Market, 0, 1)}

LevelCancelOrder(orderID) ==
    /\ orderID \in UnFilledOrders
    /\ CancelOrder(orderID)

LevelNext ==
    \/ \E order \in LevelValidOrders : Place(order, LevelOrders)
    \/ \E orderID \in 1..LevelOrders : LevelCancelOrder(orderID)

LevelSpec == Init /\ [][LevelNext]_vars

\* ------------------------------------------------------------ threads
\* ConcSpec: MaxThreads threads call the four methods of one book.  A call
\* is a sequence of steps of its thread; the steps of different threads
\* interleave freely, and ob.mutex (a sync.RWMutex) is what keeps a thread
\* waiting.  `lastOp` belongs to the one-call-at-a-time specifications
\* and stays as it is here: what a call returns is in ret[t] when the
\* thread reaches its return.
BookVars ==
    <<orders, levels, Bids, Asks, BidLevels, AskLevels, UnFilledOrders,
      Trades, matchLog, cancelled, panicked>>

\* a mutex that never makes a writer wait
CanLockAlways(m) == TRUE

\* ob.mutex.Lock() has two waits.  It first takes the writers' mutex, which
\* is free when no writer holds ob.mutex; from then on RLock makes new
\* readers wait.  It then waits for the readers inside to leave.
CanLock(m) == m.writer = 0

ReadersGone(m) == m.readers = {}

\* ob.mutex.RLock() proceeds when no writer holds the mutex
CanRLock(m) == m.writer = 0

Goto(t, label) == pc' = [pc EXCEPT ![t] = label]

\* PlaceOrder calls that have not yet appended their order
Entering ==
    {t \in Threads : pc[t] \in {"PlaceOrder:198", "PlaceOrder:201",
                                "PlaceOrder:Lock", "PlaceOrder:204"}}

\* the orders the threads submit: a Limit Bid and a Limit Ask that cross,
\* and a Market Ask
ConcValidOrders ==
    {NewOrder(Bid, Limit, MaxPrice, 1), NewOrder(Ask, Limit, 1, 1),
     NewOrder(Ask, Market, 0, 1)}

\* a thread calls PlaceOrder(o) with a fresh Order object
CallPlaceOrder(t, order) ==
    /\ ~panicked
    /\ pc[t] = "idle"
    /\ Len(orders) + Cardinality(Entering) < ConcOrders
    /\ Goto(t, "PlaceOrder:198")
    /\ arg' = [arg EXCEPT ![t] = [NoCall EXCEPT !.op = "PlaceOrder",
                                                !.order = order]]
    /\ UNCHANGED <<BookVars, lastOp, ret, mutex, snap>>

\* o.Status = Pending; o.Timestamp = time.Now()
Stamp(t) ==
    /\ ~panicked
    /\ pc[t] = "PlaceOrder:198"
    /\ Goto(t, "PlaceOrder:201")
    /\ arg' = [arg EXCEPT ![t].order.Status = Pending, ![t].Timestamp = TRUE]
    /\ UNCHANGED <<BookVars, lastOp, ret, mutex, snap>>

\* a thread calls CancelOrder(orderID)
CallCancelOrder(t, orderID) ==
    /\ ~panicked
    /\ pc[t] = "idle"
    /\ Goto(t, "CancelOrder:422")
    /\ arg' = [arg EXCEPT ![t] = [NoCall EXCEPT !.op = "CancelOrder",
                                                !.orderID = orderID]]
    /\ UNCHANGED <<BookVars, lastOp, ret, mutex, snap>>

\* ob.mutex.Lock() of PlaceOrder and of CancelOrder: the thread becomes
\* the writer
Lock(t) ==
    /\ ~panicked
    /\ pc[t] \in {"PlaceOrder:201", "CancelOrder:422"}
    /\ CanLock(mutex)
    /\ mutex' = [mutex EXCEPT !.writer = t]
    /\ Goto(t, IF pc[t] = "PlaceOrder:201" THEN "PlaceOrder:Lock"
               ELSE "CancelOrder:Lock")
    /\ UNCHANGED <<BookVars, lastOp, arg, ret, snap>>

\* ob.mutex.Lock() returns once the readers have left
LockEnter(t) ==
    /\ ~panicked
    /\ pc[t] \in {"PlaceOrder:Lock", "CancelOrder:Lock"}
    /\ ReadersGone(mutex)
    /\ snap' = [snap EXCEPT ![t] = Book]
    /\ Goto(t, IF pc[t] = "PlaceOrder:Lock" THEN "PlaceOrder:204"
               ELSE "CancelOrder:425")
    /\ UNCHANGED <<BookVars, lastOp, arg, ret, mutex>>

\* processLimitOrder / processMarketOrder up to the end of the matching
\* loop; a panic goes straight to the deferred Unlock
PlaceMatch(t) ==
    /\ ~panicked
    /\ pc[t] = "PlaceOrder:204"
    /\ LET o == Len(orders) + 1
           order == arg[t].order
           b0 == [Book EXCEPT !.orders = Append(@, order)]
           b1 == IF order.Type = Limit
                 THEN IF order.Side = Bid THEN limitBidLoop(b0, o)
                      ELSE limitAskLoop(b0, o)
                 ELSE IF order.Side = Bid THEN marketBidLoop(b0, o)
                      ELSE marketAskLoop(b0, o)
       IN /\ Store(b1)
          /\ ret' = [ret EXCEPT ![t].id = o, ![t].trades = b1.trades]
          /\ Goto(t, IF b1.panicked THEN "PlaceOrder:return"
                     ELSE "PlaceOrder:rest")
    /\ UNCHANGED <<cancelled, lastOp, arg, mutex, snap>>

\* processLimitOrder / processMarketOrder after the matching loop: the
\* remainder of a Limit order is inserted, that of a Market order cancelled
PlaceRest(t) ==
    /\ ~panicked
    /\ pc[t] = "PlaceOrder:rest"
    /\ LET o == ret[t].id
           b == Book
           b2 == IF ~(Remaining(b.orders[o]) > 0) THEN b
                 ELSE IF b.orders[o].Type = Market
                 THEN [b EXCEPT !.orders[o].Status = Cancelled]
                 ELSE IF b.orders[o].Side = Bid THEN AddBidToOrderBook(b, o)
                 ELSE AddAskToOrderBook(b, o)
       IN Store(b2)
    /\ Goto(t, "PlaceOrder:return")
    /\ UNCHANGED <<cancelled, lastOp, arg, ret, mutex, snap>>

\* CancelOrder: the index lookup, order.Status = Cancelled and the delete
\* from the index
CancelMark(t) ==
    /\ ~panicked
    /\ pc[t] = "CancelOrder:425"
    /\ LET orderID == arg[t].orderID
       IN IF orderID \notin UnFilledOrders
          THEN /\ Goto(t, "CancelOrder:return")
               /\ UNCHANGED BookVars
          ELSE /\ Goto(t, "CancelOrder:433")
               /\ orders' = [orders EXCEPT ![orderID].Status = Cancelled]
               /\ UnFilledOrders' = UnFilledOrders \ {orderID}
               /\ cancelled' = cancelled \cup {orderID}
               /\ UNCHANGED <<levels, Bids, Asks, BidLevels, AskLevels,
                              Trades, matchLog, panicked>>
    /\ UNCHANGED <<lastOp, arg, ret, mutex, snap>>

\* CancelOrder: the order leaves the level the table holds for its price,
\* the level is cleaned up, and true is returned
CancelLevel(t) ==
    /\ ~panicked
    /\ pc[t] = "CancelOrder:433"
    /\ LET orderID == arg[t].orderID
           b == Book
           isBid == b.orders[orderID].Side = Bid
           level == IF isBid THEN b.BidLevels[b.orders[orderID].Price]
                    ELSE b.AskLevels[b.orders[orderID].Price]
           newOrders == SelectSeq(b.levels[level].Orders,
                                  LAMBDA x : x # orderID)
           b2 == [b EXCEPT !.levels[level] =
                    [@ EXCEPT !.Orders = newOrders,
                              !.Quantity = SumRemaining(b.orders, newOrders)]]
           b3 == IF level = NoLevel THEN b
                 ELSE cleanupPriceLevel(b2, level, isBid)
       IN /\ Store(b3)
          /\ ret' = [ret EXCEPT ![t].ok = ~b3.panicked]
    /\ Goto(t, "CancelOrder:return")
    /\ UNCHANGED <<cancelled, lastOp, arg, mutex, snap>>

\* an Unlock that is skipped on CancelOrder's early return
UnlockNotOnEarlyReturn(t) ==
    /\ pc[t] \in {"PlaceOrder:return", "CancelOrder:return"}
    /\ mutex' = IF pc[t] = "CancelOrder:return" /\ ~ret[t].ok /\ ~panicked
                THEN mutex ELSE [mutex EXCEPT !.writer = 0]
    /\ Goto(t, "idle")
    /\ arg' = [arg EXCEPT ![t] = NoCall]
    /\ ret' = [ret EXCEPT ![t] = NoReturn]
    /\ snap' = [snap EXCEPT ![t] = NewOrderBook]
    /\ panicked' = FALSE
    /\ UNCHANGED <<orders, levels, Bids, Asks, BidLevels, AskLevels,
                   UnFilledOrders, Trades, matchLog, cancelled, lastOp>>

\* defer ob.mutex.Unlock(), then the call leaves: it returns, or, after a
\* panic, the panic goes on to the caller with the lock released.  The
\* callers that share the book are the handlers of main.go's HTTP server,
\* one goroutine a request, and the server recovers the panic of a
\* handler: the book stays as the panic left it and the threads go on.
Unlock(t) ==
    /\ pc[t] \in {"PlaceOrder:return", "CancelOrder:return"}
    /\ mutex' = [mutex EXCEPT !.writer = 0]
    /\ Goto(t, "idle")
    /\ arg' = [arg EXCEPT ![t] = NoCall]
    /\ ret' = [ret EXCEPT ![t] = NoReturn]
    /\ snap' = [snap EXCEPT ![t] = NewOrderBook]
    /\ panicked' = FALSE
    /\ UNCHANGED <<orders, levels, Bids, Asks, BidLevels, AskLevels,
                   UnFilledOrders, Trades, matchLog, cancelled, lastOp>>

\* a thread calls GetBestBidAsk() or GetDepth(n)
CallGetBestBidAsk(t) ==
    /\ ~panicked
    /\ pc[t] = "idle"
    /\ Goto(t, "GetBestBidAsk:467")
    /\ arg' = [arg EXCEPT ![t] = [NoCall EXCEPT !.op = "GetBestBidAsk"]]
    /\ UNCHANGED <<BookVars, lastOp, ret, mutex, snap>>

CallGetDepth(t, n) ==
    /\ ~panicked
    /\ pc[t] = "idle"
    /\ Goto(t, "GetDepth:485")
    /\ arg' = [arg EXCEPT ![t] = [NoCall EXCEPT !.op = "GetDepth",
                                                !.levels = n]]
    /\ UNCHANGED <<BookVars, lastOp, ret, mutex, snap>>

\* ob.mutex.RLock() of the two queries
RLock(t) ==
    /\ ~panicked
    /\ pc[t] \in {"GetBestBidAsk:467", "GetDepth:485"}
    /\ CanRLock(mutex)
    /\ mutex' = [mutex EXCEPT !.readers = @ \cup {t}]
    /\ snap' = [snap EXCEPT ![t] = Book]
    /\ Goto(t, IF pc[t] = "GetBestBidAsk:467" THEN "GetBestBidAsk:470"
               ELSE "GetDepth:489")
    /\ UNCHANGED <<BookVars, lastOp, arg, ret>>

\* GetBestBidAsk: the two peeks
ReadBestBidAsk(t) ==
    /\ ~panicked
    /\ pc[t] = "GetBestBidAsk:470"
    /\ ret' = [ret EXCEPT ![t].bestBid = GetBestBidAskBody(Book).bestBid,
                          ![t].bestAsk = GetBestBidAskBody(Book).bestAsk,
                          ![t].ok = GetBestBidAskBody(Book).ok]
    /\ Goto(t, "GetBestBidAsk:return")
    /\ UNCHANGED <<BookVars, lastOp, arg, mutex, snap>>

\* GetDepth: the loop over the bids, then the loop over the asks
ReadDepthBids(t) ==
    /\ ~panicked
    /\ pc[t] = "GetDepth:489"
    /\ ret' = [ret EXCEPT ![t].bids =
                  depthLoop(levels, Bids, 0, 0, arg[t].levels, <<>>)]
    /\ Goto(t, "GetDepth:500")
    /\ UNCHANGED <<BookVars, lastOp, arg, mutex, snap>>

ReadDepthAsks(t) ==
    /\ ~panicked
    /\ pc[t] = "GetDepth:500"
    /\ ret' = [ret EXCEPT ![t].asks =
                  depthLoop(levels, Asks, 0, 0, arg[t].levels, <<>>)]
    /\ Goto(t, "GetDepth:return")
    /\ UNCHANGED <<BookVars, lastOp, arg, mutex, snap>>

\* defer ob.mutex.RUnlock(), then the return to the caller
RUnlock(t) ==
    /\ pc[t] \in {"GetBestBidAsk:return", "GetDepth:return"}
    /\ mutex' = [mutex EXCEPT !.readers = @ \ {t}]
    /\ Goto(t, "idle")
    /\ arg' = [arg EXCEPT ![t] = NoCall]
    /\ ret' = [ret EXCEPT ![t] = NoReturn]
    /\ snap' = [snap EXCEPT ![t] = NewOrderBook]
    /\ UNCHANGED <<BookVars, lastOp>>

ConcNext ==
    \E t \in Threads :
        \/ \E order \in ConcValidOrders : CallPlaceOrder(t, order)
        \/ Stamp(t)
        \/ \E orderID \in 1..ConcOrders : CallCancelOrder(t, orderID)
        \/ Lock(t)
        \/ LockEnter(t)
        \/ PlaceMatch(t)
        \/ PlaceRest(t)
        \/ CancelMark(t)
        \/ CancelLevel(t)
        \/ Unlock(t)
        \/ CallGetBestBidAsk(t)
        \/ CallGetDepth(t, QueryDepth)
        \/ RLock(t)
        \/ ReadBestBidAsk(t)
        \/ ReadDepthBids(t)
        \/ ReadDepthAsks(t)
        \/ RUnlock(t)

ConcSpec == Init /\ [][ConcNext]_vars

\* the positions of a thread
Labels ==
    {"idle", "PlaceOrder:198", "PlaceOrder:201", "PlaceOrder:Lock",
     "PlaceOrder:204", "PlaceOrder:rest", "PlaceOrder:return",
     "CancelOrder:422", "CancelOrder:Lock", "CancelOrder:425",
     "CancelOrder:433", "CancelOrder:return", "GetBestBidAsk:467",
     "GetBestBidAsk:470", "GetBestBidAsk:return", "GetDepth:485",
     "GetDepth:489", "GetDepth:500", "GetDepth:return"}

\* the steps of a thread that is inside a call and takes no lock
Step(t) ==
    \/ Stamp(t)
    \/ LockEnter(t)
    \/ PlaceMatch(t)
    \/ PlaceRest(t)
    \/ CancelMark(t)
    \/ CancelLevel(t)
    \/ Unlock(t)
    \/ ReadBestBidAsk(t)
    \/ ReadDepthBids(t)
    \/ ReadDepthAsks(t)
    \/ RUnlock(t)

\* the thread can take a step of Step: it is inside a call, it is not
\* about to take a lock, and, in Lock, the readers have left
Runnable(t) ==
    \/ pc[t] \in {"PlaceOrder:return", "CancelOrder:return",
                  "GetBestBidAsk:return", "GetDepth:return"}
    \/ /\ ~panicked
       /\ pc[t] \in {"PlaceOrder:198", "PlaceOrder:204", "PlaceOrder:rest",
                     "CancelOrder:425", "CancelOrder:433",
                     "GetBestBidAsk:470", "GetDepth:489", "GetDepth:500"}
    \/ /\ ~panicked
       /\ pc[t] \in {"PlaceOrder:Lock", "CancelOrder:Lock"}
       /\ ReadersGone(mutex)

\* Weak fairness of Step(t), written on the states.  Every step of
\* Step(t) moves the thread to another position and Step(t) is enabled
\* exactly where Runnable(t) holds, so WF_vars(Step(t)) says that the
\* thread does not stay for ever at one position where it can run.
Scheduled(t) ==
    \A label \in Labels : []<>~(pc[t] = label /\ Runnable(t))

\* Fair scheduling.  A thread that can run does run; no caller is obliged
\* to call.  sync.RWMutex hands the lock over fairly: a goroutine blocked
\* in Lock longer than a millisecond puts the writers' mutex in starvation
\* mode, where Unlock passes it to the first waiter, and a writer's Unlock
\* wakes every reader blocked in RLock before the next writer gets in.  So
\* a thread that finds the lock free again and again gets it.
Fairness ==
    \A t \in Threads :
        /\ Scheduled(t)
        /\ SF_vars(Lock(t))
        /\ SF_vars(RLock(t))

\* Runnable(t) is where Step(t) is enabled, and a step of Step(t) moves
\* the thread
RunnableIsStep ==
    /\ [](\A t \in Threads : Runnable(t) <=> ENABLED Step(t))
    /\ [][\A t \in Threads : Step(t) => pc'[t] # pc[t]]_vars

FairSpec == Init /\ [][ConcNext]_vars /\ Fairness

\* ------------------------------------------------------------ properties
Sides == {Bid, Ask}

Opposite(side) == IF side = Bid THEN Ask ELSE Bid

HeapOf(side) == IF side = Bid THEN Bids ELSE Asks

TableOf(side) == IF side = Bid THEN BidLevels ELSE AskLevels

\* the level holds a non-terminal order with positive remaining quantity
HoldsResting(l) ==
    \E i \in 1..Len(levels[l].Orders) :
        /\ orders[levels[l].Orders[i]].Status \in {Pending, Partial}
        /\ Remaining(orders[levels[l].Orders[i]]) > 0

\* C1: no call aborts: PlaceOrder always returns a trade list and
\* CancelOrder a boolean
NoAbort == ~panicked

\* C2: after every call that returned, a level is in its side's heap if and
\* only if it holds a non-terminal order with positive remaining quantity
LevelLifecycle ==
    ~panicked =>
        \A side \in Sides :
            \A l \in Range(HeapOf(side)) \cup (Range(TableOf(side)) \ {NoLevel}) :
                (l \in Range(HeapOf(side))) <=> HoldsResting(l)

\* C3: on each side the prices keyed in the lookup table are the prices of
\* the levels in the heap, and no price is in the heap twice
QueueLookupConsistent ==
    ~panicked =>
        \A side \in Sides :
            /\ {p \in AllPrices : TableOf(side)[p] # NoLevel}
                  = {levels[l].Price : l \in Range(HeapOf(side))}
            /\ \A i, j \in 1..Len(HeapOf(side)) :
                  levels[HeapOf(side)[i]].Price = levels[HeapOf(side)[j]].Price
                      => i = j

\* C4: the maker of every trade had the best price among all orders of its
\* side resting in the order index when it was matched
PricePriority ==
    \A i \in 1..Len(matchLog) :
        orders[matchLog[i].maker].Price = matchLog[i].bestResting

\* C5: no order is matched while an order inserted earlier rests at the
\* same price on the same side
TimePriority ==
    \A i \in 1..Len(matchLog) : matchLog[i].earlier = {}

\* C6: every trade of the log carries the price of its maker, the order
\* that was resting, and not the incoming order's price when the two differ
MakerPrice ==
    \A i \in 1..Len(Trades) :
        /\ Trades[i].Price = orders[matchLog[i].maker].Price
        /\ orders[matchLog[i].taker].Price # orders[matchLog[i].maker].Price
              => Trades[i].Price # orders[matchLog[i].taker].Price

\* C6 happens: a limit order was matched with a maker of another price
MakerPriceCase ==
    \E i \in 1..Len(Trades) :
        /\ orders[matchLog[i].taker].Type = Limit
        /\ orders[matchLog[i].taker].Price # orders[matchLog[i].maker].Price

\* C7: the trades PlaceOrder returns for a Limit Bid at P have price <= P,
\* those it returns for a Limit Ask at P have price >= P
CrossingCorrectness ==
    (lastOp.op = "PlaceOrder" /\ orders[lastOp.id].Type = Limit) =>
        \A i \in 1..Len(lastOp.trades) :
            IF orders[lastOp.id].Side = Bid
            THEN lastOp.trades[i].Price <= orders[lastOp.id].Price
            ELSE lastOp.trades[i].Price >= orders[lastOp.id].Price

\* C7 happens: the last call placed a limit order and returned a trade at
\* a price other than the order's own
CrossingCase ==
    /\ lastOp.op = "PlaceOrder"
    /\ orders[lastOp.id].Type = Limit
    /\ \E i \in 1..Len(lastOp.trades) :
          lastOp.trades[i].Price # orders[lastOp.id].Price

\* the sum of the quantities of the trades of the log that name order id
RECURSIVE TradedQuantity(_, _)
TradedQuantity(log, id) ==
    IF log = <<>> THEN 0
    ELSE (IF id \in {Head(log).BuyOrderId, Head(log).SellOrderId}
          THEN Head(log).Quantity ELSE 0) + TradedQuantity(Tail(log), id)

\* C9: 0 <= filled <= quantity for every order, filled is the sum of the
\* order's trades, and every trade's quantity is positive and at most what
\* each of its two orders had left just before the match
QuantityConservation ==
    /\ \A id \in 1..Len(orders) :
          /\ 0 <= orders[id].FilledQuantity
          /\ orders[id].FilledQuantity <= orders[id].Quantity
          /\ orders[id].FilledQuantity = TradedQuantity(Trades, id)
    /\ \A i \in 1..Len(Trades) :
          /\ Trades[i].Quantity > 0
          /\ Trades[i].Quantity <= matchLog[i].takerRem
          /\ Trades[i].Quantity <= matchLog[i].makerRem
          /\ {Trades[i].BuyOrderId, Trades[i].SellOrderId}
                = {matchLog[i].taker, matchLog[i].maker}

\* C9 happens: a trade filled less than one of its orders had left
QuantityCase ==
    \E i \in 1..Len(Trades) :
        \/ Trades[i].Quantity < matchLog[i].takerRem
        \/ Trades[i].Quantity < matchLog[i].makerRem

\* C10: in every trade of the log, whenever the calls so far have returned,
\* the buy order is the Bid and the sell order the Ask
TradeSides ==
    ~panicked => \A i \in 1..Len(Trades) :
        /\ orders[Trades[i].BuyOrderId].Side = Bid
        /\ orders[Trades[i].SellOrderId].Side = Ask

\* C8: a Limit order that crosses no resting opposite-side order gets no
\* trades and rests at its own price on its own side, and the opposite
\* side's resting orders and cached level quantities are as before
NothingCrosses(order) ==
    \A x \in UnFilledOrders :
        orders[x].Side = Opposite(order.Side) =>
            IF order.Side = Bid THEN orders[x].Price > order.Price
            ELSE orders[x].Price < order.Price

NonCrossingStep ==
    LET o == lastOp'.id
        order == orders'[o]
        opp == Opposite(order.Side)
        oppLevels == Range(HeapOf(opp)) \cup (Range(TableOf(opp)) \ {NoLevel})
        table == IF order.Side = Bid THEN BidLevels' ELSE AskLevels'
        oppLevelsAfter == IF opp = Bid THEN Range(Bids') \cup Range(BidLevels')
                          ELSE Range(Asks') \cup Range(AskLevels')
    IN (/\ lastOp'.op = "PlaceOrder"
        /\ Len(orders') = Len(orders) + 1
        /\ order.Type = Limit
        /\ NothingCrosses(order))
       => /\ ~panicked'
          /\ lastOp'.trades = <<>>
          /\ Trades' = Trades
          /\ o \in UnFilledOrders'
          /\ table[order.Price] # NoLevel
          /\ \E i \in 1..Len(levels'[table[order.Price]].Orders) :
                levels'[table[order.Price]].Orders[i] = o
          /\ \A x \in UnFilledOrders :
                orders[x].Side = opp =>
                    /\ x \in UnFilledOrders'
                    /\ orders'[x] = orders[x]
          /\ \A l \in oppLevels \cap oppLevelsAfter :
                levels'[l].Quantity = levels[l].Quantity
                    /\ levels'[l].Orders = levels[l].Orders

NonCrossingPlacement == [][NonCrossingStep]_vars

\* the orders held by the levels of the heap h
HeldIn(h, lv) == UNION {Range(lv[l].Orders) : l \in Range(h)}

\* C11: when PlaceOrder of a Market order returns, the order is in neither
\* the order index nor any price level, its status is Filled if it was
\* fully filled and Cancelled otherwise, and its own side's resting orders
\* are as before: the same orders in the index, the same orders held by
\* the levels of the side's heap
MarketNeverRestsStep ==
    LET o == lastOp'.id
        order == orders'[o]
        isBid == order.Side = Bid
    IN (/\ lastOp'.op = "PlaceOrder"
        /\ Len(orders') = Len(orders) + 1
        /\ order.Type = Market
        /\ ~panicked')
       => /\ o \notin UnFilledOrders'
          /\ \A l \in LevelIds : o \notin Range(levels'[l].Orders)
          /\ order.Status = IF IsFilled(order) THEN Filled ELSE Cancelled
          /\ {x \in UnFilledOrders' : orders'[x].Side = order.Side}
                = {x \in UnFilledOrders : orders[x].Side = order.Side}
          /\ HeldIn(IF isBid THEN Bids' ELSE Asks', levels')
                = HeldIn(IF isBid THEN Bids ELSE Asks, levels)

MarketNeverRests == [][MarketNeverRestsStep]_vars

\* C12: whenever PlaceOrder of a Market order returns with the order
\* Cancelled, the order index holds no order of the opposite side
MarketExhaustion ==
    (/\ lastOp.op = "PlaceOrder"
     /\ ~panicked
     /\ orders[lastOp.id].Type = Market
     /\ orders[lastOp.id].Status = Cancelled)
    => \A x \in UnFilledOrders :
          orders[x].Side # Opposite(orders[lastOp.id].Side)

\* the order is resting: a limit order that was inserted, is not fully
\* filled and has not been cancelled
Resting(id) ==
    /\ id \in 1..Len(orders)
    /\ orders[id].Type = Limit
    /\ Remaining(orders[id]) > 0
    /\ id \notin cancelled

\* C13: CancelOrder(id) returns, and returns true, exactly when id is a
\* resting order; called again right after it returned true it returns
\* false; and when it returns false the heaps, the lookup tables, the
\* order index, the trade log and every order are as before
CancelResultStep ==
    LET id == lastOp'.id
    IN lastOp'.op = "CancelOrder" =>
        /\ Resting(id) <=> (~panicked' /\ lastOp'.ok)
        /\ (lastOp.op = "CancelOrder" /\ lastOp.ok /\ lastOp.id = id)
              => ~lastOp'.ok
        /\ ~lastOp'.ok =>
              UNCHANGED <<orders, levels, Bids, Asks, BidLevels, AskLevels,
                          UnFilledOrders, Trades>>

CancelResult == [][CancelResultStep]_vars

\* C14: once an order is Cancelled or Filled, no later call changes its
\* status or its filled quantity, and no trade appended afterwards names it
TerminalStep ==
    \A id \in 1..Len(orders) :
        orders[id].Status \in {Cancelled, Filled} =>
            /\ orders'[id].Status = orders[id].Status
            /\ orders'[id].FilledQuantity = orders[id].FilledQuantity
            /\ \A i \in (Len(Trades) + 1)..Len(Trades') :
                  id \notin {Trades'[i].BuyOrderId, Trades'[i].SellOrderId}

TerminalFinal == [][TerminalStep]_vars

\* C15: a CancelOrder(id) that returns true removes only that order from
\* the index and from its level and retires only that order's own level,
\* if it became empty: every other resting order stays in the index and in
\* its level at the same relative position, every other level holding
\* resting orders stays in its side's heap and lookup table, the opposite
\* side and the trade log are unchanged
CancelFrameStep ==
    LET id == lastOp'.id
        side == orders[id].Side
        own == TableOf(side)[orders[id].Price]
        heapAfter(s) == IF s = Bid THEN Bids' ELSE Asks'
        tableAfter(s) == IF s = Bid THEN BidLevels' ELSE AskLevels'
    IN (lastOp'.op = "CancelOrder" /\ lastOp'.ok /\ ~panicked') =>
        /\ UnFilledOrders' = UnFilledOrders \ {id}
        /\ \A x \in 1..Len(orders) : x # id => orders'[x] = orders[x]
        /\ Trades' = Trades
        /\ heapAfter(Opposite(side)) = HeapOf(Opposite(side))
        /\ tableAfter(Opposite(side)) = TableOf(Opposite(side))
        /\ \A l \in LevelIds :
              HoldsResting(l) =>
                  /\ levels'[l].Orders =
                        SelectSeq(levels[l].Orders, LAMBDA x : x # id)
                  /\ (l # own \/ levels'[l].Orders # <<>>) =>
                        /\ (l \in Range(HeapOf(side)))
                              => l \in Range(heapAfter(side))
                        /\ \A p \in AllPrices :
                              TableOf(side)[p] = l => tableAfter(side)[p] = l

CancelFrame == [][CancelFrameStep]_vars

\* the levels a side of the book holds, through its heap or its table
LevelsOf(side) == Range(HeapOf(side)) \cup (Range(TableOf(side)) \ {NoLevel})

\* the levels of either side whose order sequence holds order id
LevelsHolding(id) ==
    {l \in LevelsOf(Bid) \cup LevelsOf(Ask) : id \in Range(levels[l].Orders)}

\* C20: after every call that returned, an ID is in the order index if and
\* only if the order is in the order sequence of exactly one price level,
\* that level is one of its own side at its own price, and the order is
\* Pending or Partial with positive remaining quantity; no Filled or
\* Cancelled order is in a level or in the index
IndexConsistent ==
    ~panicked =>
        \A id \in 1..Len(orders) :
            /\ id \in UnFilledOrders <=>
                  /\ Cardinality(LevelsHolding(id)) = 1
                  /\ \A l \in LevelsHolding(id) :
                        /\ l \in LevelsOf(orders[id].Side)
                        /\ levels[l].Price = orders[id].Price
                        /\ Len(SelectSeq(levels[l].Orders,
                                         LAMBDA x : x = id)) = 1
                  /\ orders[id].Status \in {Pending, Partial}
                  /\ Remaining(orders[id]) > 0
            /\ orders[id].Status \in {Filled, Cancelled} =>
                  /\ id \notin UnFilledOrders
                  /\ LevelsHolding(id) = {}

\* C16: GetBestBidAsk reports for each side, independently of the other,
\* no value when the side has no resting order, and otherwise the best
\* price among the side's resting orders.  Its three results carry one
\* flag for both prices: a side reports no value only when ok is false.
BestBidAskCorrect ==
    lastOp.op = "GetBestBidAsk" =>
        \A side \in Sides :
            LET price == IF side = Bid THEN lastOp.bestBid ELSE lastOp.bestAsk
            IN IF RestingOn(Book, side) = {} THEN ~lastOp.ok
               ELSE lastOp.ok /\ price = BestRestingPrice(Book, side)

\* the price p is better than q on the side
Better(side, p, q) == IF side = Bid THEN p > q ELSE p < q

\* C17: GetDepth(n) returns for each side the min(n, k) best of the k
\* non-empty levels of the side's heap, best first with strictly improving
\* prices, each with its price, the aggregate remaining quantity of its
\* orders and their count
DepthCorrect ==
    lastOp.op = "GetDepth" =>
        \A side \in Sides :
            LET res == IF side = Bid THEN lastOp.bids ELSE lastOp.asks
                nonEmpty == {l \in Range(HeapOf(side)) : ~isEmpty(levels[l])}
            IN /\ Len(res) = min(lastOp.levels, Cardinality(nonEmpty))
               /\ \A i \in 1..Len(res) :
                     /\ \E l \in nonEmpty :
                           /\ res[i].Price = levels[l].Price
                           /\ Len(res[i].Orders) = Len(levels[l].Orders)
                     /\ res[i].Quantity = SumRemaining(orders, res[i].Orders)
                     /\ \A j \in 1..Len(res) :
                           i < j => Better(side, res[i].Price, res[j].Price)
                     /\ \A l \in nonEmpty :
                           Better(side, levels[l].Price, res[i].Price)
                               => \E j \in 1..(i - 1) :
                                     res[j].Price = levels[l].Price

\* the thread is inside PlaceOrder or CancelOrder, past Lock
InWrite(t) ==
    pc[t] \in {"PlaceOrder:204", "PlaceOrder:rest", "PlaceOrder:return",
               "CancelOrder:425", "CancelOrder:433", "CancelOrder:return"}

\* the thread is inside GetBestBidAsk or GetDepth, past RLock
InRead(t) ==
    pc[t] \in {"GetBestBidAsk:470", "GetBestBidAsk:return",
               "GetDepth:489", "GetDepth:500", "GetDepth:return"}

\* C18: never are two writers, or a writer and a reader, inside the book
\* together, and no step of a PlaceOrder or CancelOrder call writes to the
\* book or to a field of the call's order while its thread does not hold
\* the exclusive lock
ExclusionStep ==
    /\ \A t, u \in Threads :
          t # u => ~(InWrite(t)' /\ (InWrite(u)' \/ InRead(u)'))
    /\ \A t \in Threads :
          (/\ pc[t] # "idle"
           /\ pc'[t] # "idle"
           /\ \/ arg'[t].order # arg[t].order
              \/ arg'[t].Timestamp # arg[t].Timestamp)
          => mutex.writer = t
    /\ BookVars' # BookVars =>
          \E t \in Threads : mutex.writer = t /\ pc'[t] # pc[t]

MutualExclusion == [][ExclusionStep]_vars

\* the variables hold the book b
SameBook(b) ==
    /\ orders = b.orders
    /\ levels = Collected(b)
    /\ Bids = b.Bids
    /\ Asks = b.Asks
    /\ BidLevels = b.BidLevels
    /\ AskLevels = b.AskLevels
    /\ UnFilledOrders = b.UnFilledOrders
    /\ Trades = b.Trades
    /\ matchLog = b.matchLog
    /\ panicked = b.panicked

\* every call, at its return, has had the effect and has the results of
\* the whole call run alone on the book its thread found when it took
\* the lock
Linearized ==
    \A t \in Threads :
        /\ pc[t] = "PlaceOrder:return" =>
              LET b == PlaceOrderBody(snap[t], arg[t].order)
              IN /\ SameBook(b)
                 /\ ret[t].trades = b.trades
                 /\ Trades = snap[t].Trades \o ret[t].trades
        /\ pc[t] = "CancelOrder:return" =>
              LET r == CancelOrderBody(snap[t], arg[t].orderID)
              IN /\ SameBook(r.book)
                 /\ ~panicked => ret[t].ok = r.ok
        /\ pc[t] = "GetBestBidAsk:return" =>
              /\ SameBook(snap[t])
              /\ ret[t].bestBid = GetBestBidAskBody(snap[t]).bestBid
              /\ ret[t].bestAsk = GetBestBidAskBody(snap[t]).bestAsk
              /\ ret[t].ok = GetBestBidAskBody(snap[t]).ok
        /\ pc[t] = "GetDepth:return" =>
              /\ SameBook(snap[t])
              /\ ret[t].bids = GetDepthBody(snap[t], arg[t].levels).bids
              /\ ret[t].asks = GetDepthBody(snap[t], arg[t].levels).asks

\* C19: the calls take effect one at a time in the order in which they
\* took the lock: each call's effect on the book and its results are those
\* of the whole call run on the book left by the calls that locked before
\* it, the trades of one PlaceOrder are contiguous at the end of the log
\* and are the list it returns, and the log only grows
LinearizationStep ==
    /\ Len(Trades') >= Len(Trades)
    /\ SubSeq(Trades', 1, Len(Trades)) = Trades
    /\ \A t \in Threads :
          (InWrite(t) \/ InRead(t)) /\ pc'[t] = pc[t] => BookVars' = BookVars

Linearization == []Linearized /\ [][LinearizationStep]_vars

\* C19 happens: a PlaceOrder is about to return a trade while another
\* thread, in a call of its own, waits for the lock
LinearizationCase ==
    \E t, u \in Threads :
        /\ pc[t] = "PlaceOrder:return"
        /\ ret[t].trades # <<>>
        /\ pc[u] \in {"PlaceOrder:201", "CancelOrder:422",
                      "GetBestBidAsk:467", "GetDepth:485"}

\* C21: every price level held in a lookup table or in a heap has a cached
\* Quantity equal to the sum of the remaining quantities of the orders in
\* its sequence
CachedQuantity ==
    \A l \in LevelsOf(Bid) \cup LevelsOf(Ask) :
        levels[l].Quantity = SumRemaining(orders, levels[l].Orders)

\* C21 happens: a held level of at least two orders whose head order was
\* partially filled while resting and from the middle of which an order
\* was cancelled
CachedQuantityCase ==
    \E l \in LevelsOf(Bid) \cup LevelsOf(Ask) :
        LET s == levels[l].Orders
        IN /\ Len(s) >= 2
           /\ \E i \in 1..Len(matchLog) : matchLog[i].maker = s[1]
           /\ Remaining(orders[s[1]]) > 0
           /\ \E c \in cancelled :
                 /\ s[1] < c
                 /\ c < s[Len(s)]
                 /\ orders[c].Side = orders[s[1]].Side
                 /\ orders[c].Price = levels[l].Price
                 /\ c \notin Range(s)

\* C23: after every call that returned, every order resting on the bid
\* side has a price strictly lower than every order resting on the ask side
NeverCrossed ==
    ~panicked =>
        \A x, y \in UnFilledOrders :
            (orders[x].Side = Bid /\ orders[y].Side = Ask)
                => orders[x].Price < orders[y].Price

\* the thread has called and waits for the lock
Waiting(t) ==
    pc[t] \in {"PlaceOrder:201", "PlaceOrder:Lock", "CancelOrder:422",
               "CancelOrder:Lock", "GetBestBidAsk:467", "GetDepth:485"}

\* a thread that is in no call holds no lock
LockReleased ==
    \A t \in Threads :
        pc[t] = "idle" => mutex.writer # t /\ t \notin mutex.readers

\* every trade of the matching loops filled a positive quantity
PositiveFills == \A i \in 1..Len(Trades) : Trades[i].Quantity > 0

\* C22: every PlaceOrder and CancelOrder call that is inside the book
\* leaves it, each fill of its matching loop being of positive quantity,
\* and has released the lock when it has left, on the early not-found
\* return of CancelOrder as on every other exit; and, under fair
\* scheduling, every thread that waits to enter the book enters it
Termination ==
    /\ [](LockReleased /\ PositiveFills)
    /\ \A t \in Threads : InWrite(t) ~> (pc[t] = "idle")
    /\ \A t \in Threads : Waiting(t) ~> (InWrite(t) \/ InRead(t))

\* C22 happens: a CancelOrder call is at its early not-found return,
\* holding the lock, while another thread waits to enter the book
TerminationCase ==
    \E t, u \in Threads :
        /\ pc[t] = "CancelOrder:return"
        /\ ~ret[t].ok
        /\ ~panicked
        /\ arg[t].orderID \notin cancelled
        /\ mutex.writer = t
        /\ Waiting(u)

====
